---- MODULE Spec2Model ----
(***************************************************************************)
(* A model of package requestmod (src/requestmod.go): the Transport that   *)
(* clones each request, hands the clone to a RequestVisitor, tracks the    *)
(* clone against the original in modReq, forwards it to Base, and clears   *)
(* the entry through the onEOFReader that wraps the response body.         *)
(*                                                                         *)
(* Each call of RoundTrip is a thread e in Exch; each call of              *)
(* CancelRequest is a thread c in Cancels.  sync.Mutex operations, the     *)
(* map accesses between them and the calls into Base, the visitor and the  *)
(* wrapped body are separate steps, so that every interleaving the Go      *)
(* scheduler permits is a behaviour.                                       *)
(***************************************************************************)
EXTENDS Integers, Sequences, FiniteSets, TLC

\* ---------------------------------------------------------------- bounds
NumExch == 2
NumCancels == 1
NumRaceCancels == 2
MaxVals == 2
MaxVisitOps == 2
MaxCount == 2
MaxTrace == 8

Exch == 1..NumExch
Cancels == 1..(IF NumCancels > NumRaceCancels THEN NumCancels ELSE NumRaceCancels)
Origs == Exch
Keys == {"K1", "K2"}
MarkerKey == "K2"

\* ------------------------------------------------------- heap identities
\* *http.Request pointers, http.Header maps and []string backing arrays are
\* objects; two of them are the same object iff their names are equal.
NilReq == <<"nil", 0>>
OrigReq(R) == <<"orig", R>>
ModReq(e) == <<"mod", e>>
OrigMap(R) == <<"omap", R>>
ModMap(e) == <<"mmap", e>>
NoArr == <<"none", 0, "">>
OrigArr(R, k) == <<"oarr", R, k>>
CloneArr(e, k) == <<"carr", e, k>>
VisitArr(e, k) == <<"varr", e, k>>

NoThread == <<"none", 0>>
RTThread(e) == <<"rt", e>>
CancelThread(c) == <<"cancel", c>>

NoErr == <<"nil", 0>>
VisitErr(e) == <<"visitor error", e>>
BaseErr(e) == <<"base error", e>>
CloseErr(e) == <<"close error", e>>
ReadErr(e) == <<"read error", e>>
EOF == <<"EOF", 0>>

NoRes == <<"nil", 0>>
BaseRes(e) == <<"response", e>>

\* values an original header may carry, and the value exchange e's visitor writes
OrigSeq(n) == [i \in 1..n |-> i - 1]
OrigSeqs == {OrigSeq(n) : n \in 0..MaxVals}
Marker(e) == MaxVals + e

VARIABLES
  reqs,          \* heap: *http.Request -> the struct it points to
  hmap,          \* heap: http.Header map -> [key -> backing array or NoArr]
  arr,           \* heap: backing array -> its []string contents
  baseCanCancel, \* does Transport.Base implement CancelRequest
  RequestVisitor,\* Transport.RequestVisitor: "nil", or the kind of visitor
  modReq,        \* Transport.modReq
  mu,            \* Transport.mu: the thread holding it, or NoThread
  pc,            \* position of each RoundTrip thread (and of its body consumer)
  req,           \* RoundTrip's parameter req, per thread
  visitOps,      \* header mutations the visitor has made on this clone
  verr,          \* the error the visitor returned
  smMod,         \* setModReq's parameter mod
  cont,          \* where setModReq returns to
  baseGot,       \* what Base.RoundTrip was called with (pointer, header as seen)
  baseCalls,     \* how often Base.RoundTrip was called for this exchange
  berr,          \* the error Base.RoundTrip returned
  ret,           \* what RoundTrip returned: NoRet or [res, err]
  fn,            \* onEOFReader.fn is non-nil
  fnCalls,       \* how often the cleanup callback ran
  rcRes,         \* result of the delegated rc.Read / rc.Close in progress
  eofReads,      \* how many delegated reads returned io.EOF
  rcCloses,      \* how many times rc.Close was called
  closeCalls,    \* how many times Close was called on the wrapper
  ioRet,         \* what the wrapper's Read or Close in progress has returned
  expect,        \* header the clone should carry: R's, with the visitor's edits
  origHdr0,      \* each original's header when it was handed to RoundTrip
  trace,         \* per exchange: the calls made on its behalf, in order
  overlapped,    \* another exchange on the same original was in flight with this one
  cpc,           \* position of each CancelRequest thread
  creq,          \* CancelRequest's parameter req
  cmodReq,       \* CancelRequest's local modReq
  cfound,        \* the table entry CancelRequest's lookup saw
  cancelLog,     \* calls made to Base.CancelRequest
  cancelWrites   \* table keys whose entry a CancelRequest changed, with its req

heapVars == <<reqs, hmap, arr>>
cfgVars == <<baseCanCancel, RequestVisitor>>
tabVars == <<modReq, mu>>
rtVars == <<pc, req, visitOps, verr, smMod, cont, baseGot, baseCalls, berr, ret>>
bodyVars == <<fn, fnCalls, rcRes, eofReads, rcCloses, closeCalls, ioRet>>
histVars == <<expect, origHdr0, trace, overlapped>>
cancelVars == <<cpc, creq, cmodReq, cfound, cancelLog, cancelWrites>>
vars == <<heapVars, cfgVars, tabVars, rtVars, bodyVars, histVars, cancelVars>>

NoRet == [res |-> <<"none", 0>>, err |-> <<"none", 0>>]
NoCall == [req |-> NilReq, hdr |-> <<>>, entry |-> NilReq]
\* a result (n, err) of Read, or of Close with n = 0
NoIO == [n |-> 0, err |-> <<"none", 0>>]
OK == [n |-> 0, err |-> NoErr]

\* --------------------------------------------------------------- helpers
\* m[k] of a Go map: the zero value (nil) when k is absent
MapGet(m, k) == IF k \in DOMAIN m THEN m[k] ELSE NilReq
\* delete(m, k)
MapDelete(m, k) == [x \in DOMAIN m \ {k} |-> m[x]]
\* m[k] = v
MapSet(m, k, v) == [x \in DOMAIN m \cup {k} |-> IF x = k THEN v ELSE m[x]]

\* the keys at which two tables differ
ChangedKeys(m1, m2) == {k \in DOMAIN m1 \cup DOMAIN m2 : MapGet(m1, k) # MapGet(m2, k)}

\* the header collection reachable from a header map: keys and ordered values
Content(h) == [k \in {x \in Keys : hmap[h][x] # NoArr} |-> arr[hmap[h][k]]]
HeaderOf(r) == Content(reqs[r].Header)

Inc(n) == IF n < MaxCount THEN n + 1 ELSE n
Log(e, ev) == [trace EXCEPT ![e] = IF Len(@) < MaxTrace THEN Append(@, ev) ELSE @]

\* ------------------------------------------------------------------ Init
\* The requests the callers own: original R has its own header map and one
\* backing array per key it carries.
OrigContents == UNION {[ks -> OrigSeqs] : ks \in SUBSET Keys}
FullContent == [k \in {"K1"} |-> OrigSeq(MaxVals)]

InitHeap(c) ==
  /\ reqs = [r \in {OrigReq(R) : R \in Origs} |->
               [Method |-> "GET", URL |-> <<"url", r[2]>>, Body |-> <<"body", r[2]>>,
                Header |-> OrigMap(r[2])]]
  /\ hmap = [h \in {OrigMap(R) : R \in Origs} |->
               [k \in Keys |-> IF k \in DOMAIN c[h[2]] THEN OrigArr(h[2], k) ELSE NoArr]]
  /\ arr = [a \in {x \in {OrigArr(R, k) : R \in Origs, k \in Keys} :
                       x[3] \in DOMAIN c[x[2]]} |-> c[a[2]][a[3]]]
  /\ origHdr0 = c

\* NewTransport: an empty table, an unlocked mutex
NewTransport ==
  /\ modReq = <<>>
  /\ mu = NoThread

\* the first n CancelRequest callers are there, the others never call
CancelCallers(n) == [c \in Cancels |-> IF c <= n THEN "idle" ELSE "off"]

InitRest ==
  /\ NewTransport
  /\ baseCanCancel \in BOOLEAN
  /\ visitOps = [e \in Exch |-> 0]
  /\ verr = [e \in Exch |-> NoErr]
  /\ smMod = [e \in Exch |-> NilReq]
  /\ cont = [e \in Exch |-> "none"]
  /\ baseGot = [e \in Exch |-> NoCall]
  /\ baseCalls = [e \in Exch |-> 0]
  /\ berr = [e \in Exch |-> NoErr]
  /\ ret = [e \in Exch |-> NoRet]
  /\ fn = [e \in Exch |-> FALSE]
  /\ fnCalls = [e \in Exch |-> 0]
  /\ rcRes = [e \in Exch |-> OK]
  /\ eofReads = [e \in Exch |-> 0]
  /\ rcCloses = [e \in Exch |-> 0]
  /\ closeCalls = [e \in Exch |-> 0]
  /\ ioRet = [e \in Exch |-> NoIO]
  /\ expect = [e \in Exch |-> <<>>]
  /\ trace = [e \in Exch |-> <<>>]
  /\ overlapped = [e \in Exch |-> FALSE]
  /\ creq = [c \in Cancels |-> NilReq]
  /\ cmodReq = [c \in Cancels |-> NilReq]
  /\ cfound = [c \in Cancels |-> NilReq]
  /\ cancelLog = {}
  /\ cancelWrites = {}

\* Concurrent exchanges on distinct originals; the visitor, if any, stamps
\* its exchange's marker.
Init ==
  /\ InitHeap([R \in Origs |-> FullContent])
  /\ RequestVisitor \in {"nil", "marker"}
  /\ pc = [e \in Exch |-> "idle"]
  /\ req = [e \in Exch |-> OrigReq(e)]
  /\ cpc = CancelCallers(NumCancels)
  /\ InitRest

\* One exchange, every original header of the bounded shapes, a visitor
\* that edits the clone's headers in any way.
InitClone ==
  /\ \E c \in OrigContents : InitHeap([R \in Origs |-> c])
  /\ RequestVisitor \in {"nil", "any"}
  /\ pc = [e \in Exch |-> IF e = 1 THEN "idle" ELSE "off"]
  /\ req = [e \in Exch |-> OrigReq(e)]
  /\ cpc = CancelCallers(NumCancels)
  /\ InitRest

\* Concurrent exchanges whose originals are distinct objects, or one object
\* that the caller hands to RoundTrip again and again; no visitor.
InitReuse ==
  /\ InitHeap([R \in Origs |-> FullContent])
  /\ RequestVisitor = "nil"
  /\ pc = [e \in Exch |-> "idle"]
  /\ req \in {[e \in Exch |-> OrigReq(e)], [e \in Exch |-> OrigReq(1)]}
  /\ cpc = CancelCallers(NumCancels)
  /\ InitRest

\* One exchange, on a Base that can cancel, and several CancelRequest calls.
InitRace ==
  /\ InitHeap([R \in Origs |-> FullContent])
  /\ RequestVisitor = "nil"
  /\ pc = [e \in Exch |-> IF e = 1 THEN "idle" ELSE "off"]
  /\ req = [e \in Exch |-> OrigReq(e)]
  /\ cpc = CancelCallers(NumRaceCancels)
  /\ InitRest
  /\ baseCanCancel

\* --------------------------------------------------------- cloneRequest
\* The heap after mod := cloneRequest(orig), mod being exchange e's clone.
\* cloneRequest without the loop of lines 109-111: mod.Header stays empty
cloneRequestEmptyHeader(e, orig) ==
  [reqs |-> (ModReq(e) :> [reqs[orig] EXCEPT !.Header = ModMap(e)]) @@ reqs,
   hmap |-> (ModMap(e) :> [k \in Keys |-> NoArr]) @@ hmap,
   arr |-> arr]

\* cloneRequest without the copy of the header map: mod.Header is orig.Header
cloneRequestSharedHeader(e, orig) ==
  [reqs |-> (ModReq(e) :> reqs[orig]) @@ reqs, hmap |-> hmap, arr |-> arr]

cloneRequest(e, orig) ==
  LET oh == reqs[orig].Header
      present == {k \in Keys : hmap[oh][k] # NoArr}
  IN [reqs |-> (ModReq(e) :> [reqs[orig] EXCEPT !.Header = ModMap(e)]) @@ reqs,
      hmap |-> (ModMap(e) :> [k \in Keys |->
                   IF k \in present THEN CloneArr(e, k) ELSE NoArr]) @@ hmap,
      arr |-> [a \in {CloneArr(e, k) : k \in present} |-> arr[hmap[oh][a[3]]]] @@ arr]

\* ------------------------------------------------------------ the visitor
\* A visitor is user code: it edits the header map it reaches through the
\* request it was given.  Header.Set, Header.Add, Header.Del, and an
\* assignment to one element of a value slice.
VisitorOps(e, h) ==
  IF RequestVisitor = "marker"
  THEN {[op |-> "set", k |-> MarkerKey, i |-> 0]}
  ELSE {[op |-> "set", k |-> k, i |-> 0] : k \in Keys}
       \cup {[op |-> "add", k |-> k, i |-> 0] :
               k \in {x \in Keys : hmap[h][x] = NoArr \/ Len(arr[hmap[h][x]]) < MaxVals}}
       \cup {[op |-> "del", k |-> k, i |-> 0] : k \in {x \in Keys : hmap[h][x] # NoArr}}
       \cup UNION {{[op |-> "poke", k |-> k, i |-> i] : i \in 1..Len(arr[hmap[h][k]])} :
                     k \in {x \in Keys : hmap[h][x] # NoArr}}

\* the heap after the visitor of exchange e applied o to header map h
ApplyHeap(o, h, e) ==
  LET old == IF hmap[h][o.k] = NoArr THEN <<>> ELSE arr[hmap[h][o.k]]
      v == Marker(e)
  IN CASE o.op = "set" ->
            [hmap |-> [hmap EXCEPT ![h][o.k] = VisitArr(e, o.k)],
             arr |-> (VisitArr(e, o.k) :> <<v>>) @@ arr]
       [] o.op = "add" ->
            [hmap |-> [hmap EXCEPT ![h][o.k] = VisitArr(e, o.k)],
             arr |-> (VisitArr(e, o.k) :> Append(old, v)) @@ arr]
       [] o.op = "del" ->
            [hmap |-> [hmap EXCEPT ![h][o.k] = NoArr], arr |-> arr]
       [] o.op = "poke" ->
            [hmap |-> hmap, arr |-> [arr EXCEPT ![hmap[h][o.k]][o.i] = v]]

\* the same edit on a header collection taken as a value
ApplyContent(o, c, e) ==
  LET old == IF o.k \in DOMAIN c THEN c[o.k] ELSE <<>>
      v == Marker(e)
      put(s) == [x \in DOMAIN c \cup {o.k} |-> IF x = o.k THEN s ELSE c[x]]
  IN CASE o.op = "set" -> put(<<v>>)
       [] o.op = "add" -> put(Append(old, v))
       [] o.op = "del" -> [x \in DOMAIN c \ {o.k} |-> c[x]]
       [] o.op = "poke" -> put([old EXCEPT ![o.i] = v])

\* ------------------------------------------------------------- RoundTrip
\* exchange f has been started and may still write the table: RoundTrip has
\* not returned an error and the body's fn is still to run
InFlight(f) ==
  /\ pc[f] \notin {"idle", "off", "done"}
  /\ ~(pc[f] \in {"io_ret", "body"} /\ ~fn[f])

\* line 54: mod := cloneRequest(req); line 56: is there a visitor
Clone(e) ==
  /\ pc[e] = "idle"
  /\ LET S == {f \in Exch \ {e} : req[f] = req[e] /\ InFlight(f)}
     IN overlapped' = [x \in Exch |-> overlapped[x] \/ x \in S \/ (x = e /\ S # {})]
  /\ LET h == cloneRequest(e, req[e])
     IN /\ reqs' = h.reqs
        /\ hmap' = h.hmap
        /\ arr' = h.arr
  /\ expect' = [expect EXCEPT ![e] = HeaderOf(req[e])]
  /\ IF RequestVisitor # "nil"
     THEN /\ pc' = [pc EXCEPT ![e] = "visit"]
          /\ trace' = Log(e, "visit")
     ELSE /\ pc' = [pc EXCEPT ![e] = "register"]
          /\ trace' = trace
  /\ UNCHANGED <<cfgVars, tabVars, req, visitOps, verr, smMod, cont, baseGot, baseCalls,
                 berr, ret, bodyVars, origHdr0, cancelVars>>

\* line 57, inside t.RequestVisitor(mod): one edit of mod's headers
VisitOp(e) ==
  /\ pc[e] = "visit"
  /\ visitOps[e] < (IF RequestVisitor = "marker" THEN 1 ELSE MaxVisitOps)
  /\ LET h == reqs[ModReq(e)].Header
     IN \E o \in VisitorOps(e, h) :
          /\ hmap' = ApplyHeap(o, h, e).hmap
          /\ arr' = ApplyHeap(o, h, e).arr
          /\ expect' = [expect EXCEPT ![e] = ApplyContent(o, @, e)]
  /\ visitOps' = [visitOps EXCEPT ![e] = @ + 1]
  /\ UNCHANGED <<reqs, cfgVars, tabVars, pc, req, verr, smMod, cont, baseGot, baseCalls,
                 berr, ret, bodyVars, origHdr0, trace, overlapped, cancelVars>>

\* RoundTrip calling Base without line 63
AfterVisitSkipRegister(e, err) == IF err # NoErr THEN "done" ELSE "base_call"

\* RoundTrip going on after a visitor error
AfterVisitIgnoringErr(e, err) == "register"

\* where RoundTrip goes when the visitor returned err (lines 58-60)
AfterVisit(e, err) == IF err # NoErr THEN "done" ELSE "register"
\* RoundTrip returning an error of its own in place of the visitor's
VisitResultWrapped(e, err) ==
  IF err # NoErr THEN [res |-> NoRes, err |-> <<"wrapped", e>>] ELSE NoRet

\* what RoundTrip has returned by then
VisitResult(e, err) == IF err # NoErr THEN [res |-> NoRes, err |-> err] ELSE NoRet

\* lines 57-61: the visitor returns nil or an error
VisitReturn(e) ==
  /\ pc[e] = "visit"
  /\ \E err \in {NoErr, VisitErr(e)} :
       /\ verr' = [verr EXCEPT ![e] = err]
       /\ pc' = [pc EXCEPT ![e] = AfterVisit(e, err)]
       /\ ret' = [ret EXCEPT ![e] = VisitResult(e, err)]
  /\ UNCHANGED <<heapVars, cfgVars, tabVars, req, visitOps, smMod, cont, baseGot, baseCalls,
                 berr, bodyVars, histVars, cancelVars>>

\* -------------------------------------------------------------- setModReq
\* a table with one slot, whatever the original
setModReqOneSlot(m, orig, mod) ==
  IF mod = NilReq THEN MapDelete(m, OrigReq(1)) ELSE MapSet(m, OrigReq(1), mod)

\* lines 97-101: the table after setModReq(orig, mod)
setModReq(m, orig, mod) ==
  IF mod = NilReq THEN MapDelete(m, orig) ELSE MapSet(m, orig, mod)

\* the three calls of setModReq: line 63 (req, mod), line 67 (req, nil) and
\* line 72 (req, nil), the body's fn
SetModReqArg(e) == IF pc[e] = "register" THEN ModReq(e) ELSE NilReq
SetModReqCont(e) ==
  CASE pc[e] = "register" -> "base_call"
    [] pc[e] = "unregister" -> "ret_err"
    [] pc[e] = "fn_call" -> "fn_clear"

\* ------------------------------------------------------------ sync.Mutex
\* a Lock that never waits
MutexFreeAlways == TRUE

\* t.mu.Lock() returns once no thread holds the mutex
MutexFree == mu = NoThread
\* an Unlock that is left out
MutexUnlockSkipped(t) == t

\* the holder of the mutex after thread t's t.mu.Unlock()
MutexUnlock(t) == NoThread

\* line 94: t.mu.Lock()
SetModReqLock(e) ==
  /\ pc[e] \in {"register", "unregister", "fn_call"}
  /\ MutexFree
  /\ mu' = RTThread(e)
  /\ smMod' = [smMod EXCEPT ![e] = SetModReqArg(e)]
  /\ cont' = [cont EXCEPT ![e] = SetModReqCont(e)]
  /\ pc' = [pc EXCEPT ![e] = "sm_write"]
  /\ UNCHANGED <<heapVars, cfgVars, modReq, req, visitOps, verr, baseGot, baseCalls, berr,
                 ret, bodyVars, histVars, cancelVars>>

\* lines 97-101: delete(t.modReq, orig) or t.modReq[orig] = mod
SetModReqWrite(e) ==
  /\ pc[e] = "sm_write"
  /\ modReq' = setModReq(modReq, req[e], smMod[e])
  /\ trace' = Log(e, IF smMod[e] = NilReq THEN "unregister" ELSE "register")
  /\ pc' = [pc EXCEPT ![e] = "sm_unlock"]
  /\ UNCHANGED <<heapVars, cfgVars, mu, req, visitOps, verr, smMod, cont, baseGot, baseCalls,
                 berr, ret, bodyVars, expect, origHdr0, overlapped, cancelVars>>

\* line 95: the deferred t.mu.Unlock(), and the return to the caller
SetModReqUnlock(e) ==
  /\ pc[e] = "sm_unlock"
  /\ mu' = MutexUnlock(RTThread(e))
  /\ pc' = [pc EXCEPT ![e] = cont[e]]
  /\ UNCHANGED <<heapVars, cfgVars, modReq, req, visitOps, verr, smMod, cont, baseGot,
                 baseCalls, berr, ret, bodyVars, histVars, cancelVars>>

\* ------------------------------------------------- RoundTrip, lines 64-74
\* Base.RoundTrip given the caller's request
BaseArgOriginal(e) == req[e]

\* line 64: the request handed to t.Base.RoundTrip
BaseArg(e) == ModReq(e)

\* line 64: Base.RoundTrip is called; it sees the request as it is now
BaseInvoke(e) ==
  /\ pc[e] = "base_call"
  /\ baseGot' = [baseGot EXCEPT ![e] = 
         [req |-> BaseArg(e), hdr |-> HeaderOf(BaseArg(e)),
          entry |-> MapGet(modReq, req[e])]]
  /\ baseCalls' = [baseCalls EXCEPT ![e] = Inc(@)]
  /\ trace' = Log(e, "base")
  /\ pc' = [pc EXCEPT ![e] = "base_wait"]
  /\ UNCHANGED <<heapVars, cfgVars, tabVars, req, visitOps, verr, smMod, cont, berr, ret,
                 bodyVars, expect, origHdr0, overlapped, cancelVars>>

\* RoundTrip returning Base's error without line 67
AfterBaseKeepingEntry(e, err) == IF err # NoErr THEN "ret_err" ELSE "body"

\* lines 66-70: where RoundTrip goes when Base returned err
AfterBase(e, err) == IF err # NoErr THEN "unregister" ELSE "body"

\* line 64 returns; on success lines 70-74 wrap res.Body and return res
BaseReturn(e) ==
  /\ pc[e] = "base_wait"
  /\ \E err \in {NoErr, BaseErr(e)} :
       /\ berr' = [berr EXCEPT ![e] = err]
       /\ pc' = [pc EXCEPT ![e] = AfterBase(e, err)]
       /\ fn' = [fn EXCEPT ![e] = (err = NoErr)]
       /\ ret' = [ret EXCEPT ![e] =
                    IF err = NoErr THEN [res |-> BaseRes(e), err |-> NoErr] ELSE NoRet]
  /\ UNCHANGED <<heapVars, cfgVars, tabVars, req, visitOps, verr, smMod, cont, baseGot,
                 baseCalls, fnCalls, rcRes, eofReads, rcCloses, closeCalls, ioRet,
                 histVars, cancelVars>>

\* line 68: return nil, err
FailResult(e) == [res |-> NoRes, err |-> berr[e]]

RoundTripFail(e) ==
  /\ pc[e] = "ret_err"
  /\ ret' = [ret EXCEPT ![e] = FailResult(e)]
  /\ pc' = [pc EXCEPT ![e] = "done"]
  /\ UNCHANGED <<heapVars, cfgVars, tabVars, req, visitOps, verr, smMod, cont, baseGot,
                 baseCalls, berr, bodyVars, histVars, cancelVars>>

\* ------------------------------------------------------------ onEOFReader
\* The consumer of the response body calls Read and Close one after the
\* other.  The wrapped rc is the transport's: a Read yields data (nil),
\* io.EOF or another error; a Close yields nil or an error.

\* what rc.Read(p) may return: bytes, the end of the stream, or an error
ReadOutcomes(e) ==
  {[n |-> 1, err |-> NoErr], [n |-> 0, err |-> EOF], [n |-> 0, err |-> ReadErr(e)]}

\* what rc.Close() may return
CloseOutcomes(e) == {OK, [n |-> 0, err |-> CloseErr(e)]}

\* Read running the callback on every error
ReadTriggersOnError(r) == r.err # NoErr

\* line 124: err == io.EOF
ReadTriggers(r) == r.err = EOF
\* a wrapper that swallows the error
IoReturnNil(r) == [r EXCEPT !.err = NoErr]

\* lines 127 and 133: Read returns the n and err of rc.Read, Close the err
\* of rc.Close
IoReturn(r) == r

\* lines 123-127: rc.Read, then runFunc if it returned io.EOF
Read(e) ==
  /\ pc[e] = "body"
  /\ \E r \in ReadOutcomes(e) :
       /\ rcRes' = [rcRes EXCEPT ![e] = r]
       /\ eofReads' = [eofReads EXCEPT ![e] = IF r.err = EOF THEN Inc(@) ELSE @]
       /\ IF ReadTriggers(r)
          THEN /\ pc' = [pc EXCEPT ![e] = "run_func"]
               /\ ioRet' = ioRet
          ELSE /\ pc' = [pc EXCEPT ![e] = "io_ret"]
               /\ ioRet' = [ioRet EXCEPT ![e] = IoReturn(r)]
  /\ UNCHANGED <<heapVars, cfgVars, tabVars, req, visitOps, verr, smMod, cont, baseGot,
                 baseCalls, berr, ret, fn, fnCalls, rcCloses, closeCalls, histVars,
                 cancelVars>>

\* Close leaving the wrapped stream alone once the callback has run
CloseDelegatesWhileOpen(e) == fn[e]

\* line 131: err := r.rc.Close(), whatever happened before
CloseDelegates(e) == TRUE

\* lines 131-132: rc.Close, then runFunc
Close(e) ==
  /\ pc[e] = "body"
  /\ closeCalls' = [closeCalls EXCEPT ![e] = Inc(@)]
  /\ IF CloseDelegates(e)
     THEN /\ \E r \in CloseOutcomes(e) : rcRes' = [rcRes EXCEPT ![e] = r]
          /\ rcCloses' = [rcCloses EXCEPT ![e] = Inc(@)]
     ELSE /\ rcRes' = [rcRes EXCEPT ![e] = OK]
          /\ rcCloses' = rcCloses
  /\ pc' = [pc EXCEPT ![e] = "run_func"]
  /\ UNCHANGED <<heapVars, cfgVars, tabVars, req, visitOps, verr, smMod, cont, baseGot,
                 baseCalls, berr, ret, fn, fnCalls, eofReads, ioRet, histVars, cancelVars>>

\* line 137: fn := r.fn; fn != nil
runFuncTest(e) == fn[e]

\* lines 137-138: runFunc calls fn if it is set, else returns, and with it
\* the Read or Close that called it
RunFunc(e) ==
  /\ pc[e] = "run_func"
  /\ IF runFuncTest(e)
     THEN /\ pc' = [pc EXCEPT ![e] = "fn_call"]
          /\ fnCalls' = [fnCalls EXCEPT ![e] = Inc(@)]
          /\ trace' = Log(e, "cleanup")
          /\ ioRet' = ioRet
     ELSE /\ pc' = [pc EXCEPT ![e] = "io_ret"]
          /\ ioRet' = [ioRet EXCEPT ![e] = IoReturn(rcRes[e])]
          /\ UNCHANGED <<fnCalls, trace>>
  /\ UNCHANGED <<heapVars, cfgVars, tabVars, req, visitOps, verr, smMod, cont, baseGot,
                 baseCalls, berr, ret, fn, rcRes, eofReads, rcCloses, closeCalls, expect,
                 origHdr0, overlapped, cancelVars>>

\* runFunc leaving r.fn set
runFuncKeep(e) == fn[e]

\* line 139: r.fn = nil
runFuncClear(e) == FALSE

RunFuncDone(e) ==
  /\ pc[e] = "fn_clear"
  /\ fn' = [fn EXCEPT ![e] = runFuncClear(e)]
  /\ ioRet' = [ioRet EXCEPT ![e] = IoReturn(rcRes[e])]
  /\ pc' = [pc EXCEPT ![e] = "io_ret"]
  /\ UNCHANGED <<heapVars, cfgVars, tabVars, req, visitOps, verr, smMod, cont, baseGot,
                 baseCalls, berr, ret, fnCalls, rcRes, eofReads, rcCloses, closeCalls,
                 histVars, cancelVars>>

\* the consumer has the results of its Read or Close; the call's locals are
\* gone
IoDone(e) ==
  /\ pc[e] = "io_ret"
  /\ rcRes' = [rcRes EXCEPT ![e] = OK]
  /\ ioRet' = [ioRet EXCEPT ![e] = NoIO]
  /\ pc' = [pc EXCEPT ![e] = "body"]
  /\ UNCHANGED <<heapVars, cfgVars, tabVars, req, visitOps, verr, smMod, cont, baseGot,
                 baseCalls, berr, ret, fn, fnCalls, eofReads, rcCloses, closeCalls,
                 histVars, cancelVars>>

\* ---------------------------------------------------------- CancelRequest
\* CancelRequest without the capability test
IsCancelerAlways == TRUE

\* line 83: cr, ok := t.Base.(canceler)
IsCanceler == baseCanCancel

\* lines 79-83: CancelRequest(req) is called for some original
CancelCall(c) ==
  /\ cpc[c] = "idle"
  /\ \E R \in Origs : creq' = [creq EXCEPT ![c] = OrigReq(R)]
  /\ cpc' = [cpc EXCEPT ![c] = IF IsCanceler THEN "c_lock" ELSE "done"]
  /\ UNCHANGED <<heapVars, cfgVars, tabVars, rtVars, bodyVars, histVars, cmodReq, cfound,
                 cancelLog, cancelWrites>>

\* line 84: t.mu.Lock()
CancelLock(c) ==
  /\ cpc[c] = "c_lock"
  /\ MutexFree
  /\ mu' = CancelThread(c)
  /\ cpc' = [cpc EXCEPT ![c] = "c_get"]
  /\ UNCHANGED <<heapVars, cfgVars, modReq, rtVars, bodyVars, histVars, creq, cmodReq,
                 cfound, cancelLog, cancelWrites>>

\* line 85: modReq := t.modReq[req]
CancelLookup(c) ==
  /\ cpc[c] = "c_get"
  /\ cmodReq' = [cmodReq EXCEPT ![c] = MapGet(modReq, creq[c])]
  /\ cfound' = [cfound EXCEPT ![c] = MapGet(modReq, creq[c])]
  /\ cpc' = [cpc EXCEPT ![c] = "c_del"]
  /\ UNCHANGED <<heapVars, cfgVars, tabVars, rtVars, bodyVars, histVars, creq, cancelLog, cancelWrites>>

\* CancelRequest without line 86
CancelRemoveNothing(m, r) == m

\* CancelRequest emptying the table
CancelRemoveAll(m, r) == <<>>

\* line 86: the table after delete(t.modReq, req)
CancelRemove(m, r) == MapDelete(m, r)

CancelDelete(c) ==
  /\ cpc[c] = "c_del"
  /\ modReq' = CancelRemove(modReq, creq[c])
  /\ cancelWrites' = cancelWrites \cup
       {[by |-> creq[c], key |-> k] : k \in ChangedKeys(modReq, modReq')}
  /\ cpc' = [cpc EXCEPT ![c] = "c_unlock"]
  /\ UNCHANGED <<heapVars, cfgVars, mu, rtVars, bodyVars, histVars, creq, cmodReq, cfound,
                 cancelLog>>

\* line 87: t.mu.Unlock()
CancelUnlock(c) ==
  /\ cpc[c] = "c_unlock"
  /\ mu' = MutexUnlock(CancelThread(c))
  /\ cpc' = [cpc EXCEPT ![c] = "c_fwd"]
  /\ UNCHANGED <<heapVars, cfgVars, modReq, rtVars, bodyVars, histVars, creq, cmodReq,
                 cfound, cancelLog, cancelWrites>>

\* CancelRequest forwarding the caller's request
CancelArgOriginal(c) == creq[c]

\* line 88: the argument of cr.CancelRequest
CancelArg(c) == cmodReq[c]

\* line 88: cr.CancelRequest(modReq)
CancelForward(c) ==
  /\ cpc[c] = "c_fwd"
  /\ cancelLog' = cancelLog \cup
       {[by |-> c, orig |-> creq[c], found |-> cfound[c], arg |-> CancelArg(c)]}
  /\ cpc' = [cpc EXCEPT ![c] = "done"]
  /\ UNCHANGED <<heapVars, cfgVars, tabVars, rtVars, bodyVars, histVars, creq, cmodReq,
                 cfound, cancelWrites>>

\* ------------------------------------------------------------------ Next
\* one call of RoundTrip, from its entry to its return
NextRoundTrip ==
  \/ \E e \in Exch : Clone(e)
  \/ \E e \in Exch : VisitOp(e)
  \/ \E e \in Exch : VisitReturn(e)
  \/ \E e \in Exch : SetModReqLock(e)
  \/ \E e \in Exch : SetModReqWrite(e)
  \/ \E e \in Exch : SetModReqUnlock(e)
  \/ \E e \in Exch : BaseInvoke(e)
  \/ \E e \in Exch : BaseReturn(e)
  \/ \E e \in Exch : RoundTripFail(e)

\* the consumer of a response body
NextBody ==
  \/ \E e \in Exch : Read(e)
  \/ \E e \in Exch : Close(e)
  \/ \E e \in Exch : RunFunc(e)
  \/ \E e \in Exch : RunFuncDone(e)
  \/ \E e \in Exch : IoDone(e)

NextCancel ==
  \/ \E c \in Cancels : CancelCall(c)
  \/ \E c \in Cancels : CancelLock(c)
  \/ \E c \in Cancels : CancelLookup(c)
  \/ \E c \in Cancels : CancelDelete(c)
  \/ \E c \in Cancels : CancelUnlock(c)
  \/ \E c \in Cancels : CancelForward(c)

Next == NextRoundTrip \/ NextBody \/ NextCancel

\* RoundTrip calls, body consumers and CancelRequest calls, all concurrent
Spec == Init /\ [][Next]_vars
\* The steps of exchange e that are the transport's own or that the callers
\* of the tracking table wait for: Base returns, a thread that can take the
\* mutex does, a thread that runs goes on.
Proceed(e) ==
  \/ SetModReqLock(e) \/ SetModReqWrite(e) \/ SetModReqUnlock(e)
  \/ BaseInvoke(e) \/ BaseReturn(e) \/ RoundTripFail(e)
  \/ RunFunc(e) \/ RunFuncDone(e) \/ IoDone(e)

CancelProceed(c) ==
  \/ CancelLock(c) \/ CancelLookup(c) \/ CancelDelete(c) \/ CancelUnlock(c)
  \/ CancelForward(c)

\* Concurrent exchanges, body consumers and CancelRequest calls, every
\* started call running to its end and every returned body closed in the
\* end, however often it is read before
\* a transport without a visitor: RoundTrip goes from line 54 to line 63
InitLive == Init /\ RequestVisitor = "nil"
NextLive ==
  \/ \E e \in Exch : Clone(e)
  \/ \E e \in Exch : SetModReqLock(e)
  \/ \E e \in Exch : SetModReqWrite(e)
  \/ \E e \in Exch : SetModReqUnlock(e)
  \/ \E e \in Exch : BaseInvoke(e)
  \/ \E e \in Exch : BaseReturn(e)
  \/ \E e \in Exch : RoundTripFail(e)
  \/ NextBody
  \/ NextCancel

SpecLive ==
  /\ InitLive /\ [][NextLive]_vars
  /\ \A e \in Exch : WF_vars(Proceed(e)) /\ SF_vars(Close(e))
  /\ \A c \in Cancels : WF_vars(CancelProceed(c))

\* the same threads, the caller free to dispatch one original several times
SpecReuse == InitReuse /\ [][NextLive]_vars
\* one exchange and its body against several CancelRequest calls
SpecRace == InitRace /\ [][NextLive]_vars
\* a single RoundTrip call on an arbitrary header, up to its return
SpecClone == InitClone /\ [][NextRoundTrip]_vars

\* ================================================================ claims
Returned(e) == ret[e] # NoRet
OrigOf(e) == req[e][2]

\* C1. Non-mutation: once RoundTrip(R) has returned (a response, the
\* visitor's error or Base's error), R's header collection, its keys and
\* the ordered values of each key, is what it was when R was handed in,
\* whatever the visitor set, added, deleted or overwrote in place.
C1_NonMutation ==
  \A e \in Exch : Returned(e) => HeaderOf(req[e]) = origHdr0[OrigOf(e)]

\* a response came back for a request whose clone the visitor changed
C1_Witness ==
  \E e \in Exch :
    /\ ret[e].res = BaseRes(e)
    /\ visitOps[e] = MaxVisitOps
    /\ HeaderOf(ModReq(e)) # origHdr0[OrigOf(e)]
    /\ DOMAIN origHdr0[OrigOf(e)] = Keys

\* C2. Visitor application: what Base.RoundTrip receives is the clone, and
\* its header collection is R's with the visitor's edits applied: every
\* header the visitor set, and R's headers the visitor did not touch.
C2_VisitorApplication ==
  \A e \in Exch :
    baseCalls[e] > 0 => /\ baseGot[e].req = ModReq(e)
                        /\ baseGot[e].req # req[e]
                        /\ baseGot[e].hdr = expect[e]

\* Base received a header R did not have, beside one copied from R untouched
C2_Witness ==
  \E e \in Exch :
    /\ baseCalls[e] > 0
    /\ verr[e] = NoErr
    /\ \E k \in Keys : /\ k \notin DOMAIN origHdr0[OrigOf(e)]
                       /\ k \in DOMAIN baseGot[e].hdr
                       /\ baseGot[e].hdr[k] = <<Marker(e)>>
    /\ \E k \in DOMAIN origHdr0[OrigOf(e)] :
         /\ k \in DOMAIN baseGot[e].hdr
         /\ baseGot[e].hdr[k] = origHdr0[OrigOf(e)][k]
         /\ Len(origHdr0[OrigOf(e)][k]) = MaxVals

\* C3. Visitor failure short-circuits: when the visitor returned an error,
\* RoundTrip returns that very error and no response, and Base.RoundTrip is
\* not called for that exchange.
C3_VisitorFailure ==
  \A e \in Exch :
    verr[e] # NoErr => /\ baseCalls[e] = 0
                       /\ pc[e] = "done"
                       /\ ret[e] = [res |-> NoRes, err |-> verr[e]]

\* a visitor edited the clone's headers and then failed
C3_Witness ==
  \E e \in Exch : verr[e] = VisitErr(e) /\ visitOps[e] > 0 /\ pc[e] = "done"

\* C4. Visitor failure leaves no mapping: an exchange whose visitor failed
\* never wrote the table (neither registered nor unregistered), and no
\* entry of the table points to its clone.
C4_NoMappingOnVisitorFailure ==
  \A e \in Exch :
    verr[e] # NoErr =>
      /\ \A i \in 1..Len(trace[e]) : trace[e][i] \notin {"register", "unregister"}
      /\ \A r \in DOMAIN modReq : modReq[r] # ModReq(e)

\* a visitor failed while another exchange's entry was registered, and it still is
C4_Witness ==
  \E e \in Exch :
    /\ verr[e] # NoErr
    /\ pc[e] = "done"
    /\ req[e] \notin DOMAIN modReq
    /\ \E f \in Exch \ {e} : MapGet(modReq, req[f]) = ModReq(f)

\* C5. Underlying failure propagation: when Base.RoundTrip failed, RoundTrip
\* returns Base's error unchanged and no response, and once it has returned
\* the table has no entry for R.
C5_BaseFailure ==
  \A e \in Exch :
    (berr[e] # NoErr /\ pc[e] = "done") =>
      /\ ret[e] = [res |-> NoRes, err |-> berr[e]]
      /\ req[e] \notin DOMAIN modReq

\* Base failed after the entry had been registered, and RoundTrip has returned
C5_Witness ==
  \E e \in Exch :
    /\ berr[e] = BaseErr(e)
    /\ pc[e] = "done"
    /\ trace[e][Len(trace[e]) - 1] = "base"
    /\ trace[e][Len(trace[e])] = "unregister"

\* C6. Cleanup-once: the callback of one wrapped body never runs twice, and
\* between two calls of the consumer it has run exactly once if a Read has
\* returned io.EOF or Close has been called, and not at all otherwise.
C6_CleanupOnce ==
  \A e \in Exch :
    /\ fnCalls[e] <= 1
    /\ pc[e] = "body" =>
         fnCalls[e] = (IF eofReads[e] > 0 \/ rcCloses[e] > 0 THEN 1 ELSE 0)

\* io.EOF was read more than once and Close was called more than once
C6_Witness ==
  \E e \in Exch :
    pc[e] = "body" /\ eofReads[e] >= 2 /\ rcCloses[e] >= 2 /\ fnCalls[e] = 1

\* C7. Cancellation forwards the working request: a CancelRequest(R) whose
\* lookup found R -> W has removed the entry when it unlocks, and calls
\* Base.CancelRequest with W: not R, but the clone of an exchange on R, the
\* only request that exchange hands to Base.RoundTrip.
C7_CancelForwardsWorking ==
  /\ \A c \in Cancels : cpc[c] = "c_unlock" => creq[c] \notin DOMAIN modReq
  /\ \A l \in cancelLog :
       l.found # NilReq =>
         /\ l.arg = l.found
         /\ l.arg # l.orig
         /\ \E e \in Exch : /\ l.arg = ModReq(e)
                            /\ req[e] = l.orig
                            /\ baseGot[e].req \in {NilReq, l.arg}

\* a cancel was forwarded with the request Base.RoundTrip is working on
C7_Witness ==
  \E l \in cancelLog : \E e \in Exch :
    l.found # NilReq /\ baseGot[e].req = l.arg /\ pc[e] = "base_wait"

\* C8. Cancellation without a mapping is a silent no-op: a CancelRequest(R)
\* whose lookup found no entry for R forwards no call to Base.CancelRequest.
C8_NoForwardWithoutMapping ==
  \A l \in cancelLog : l.found # NilReq

\* C9. Cancellation does not affect other exchanges: a CancelRequest(R)
\* changes the table at no key but R, so the entry of another original R'
\* (present or absent, and its working request) stays as it is, and
\* Base.CancelRequest is never called with the clone of an exchange on
\* another original.
C9_CancelLeavesOthers ==
  /\ \A w \in cancelWrites : w.key = w.by
  /\ \A l \in cancelLog : \A e \in Exch : l.arg = ModReq(e) => req[e] = l.orig

\* R was cancelled while in flight, and the entry of R' is still there
C9_Witness ==
  \E c \in Cancels : \E e \in Exch :
    /\ cpc[c] = "done"
    /\ cfound[c] # NilReq
    /\ req[e] # creq[c]
    /\ MapGet(modReq, req[e]) = ModReq(e)

\* C10. Cancellation without capability: when Base has no CancelRequest, a
\* CancelRequest returns at once: it changes no entry of the table, never
\* holds the lock, and calls nothing on Base.
C10_NoCapabilityNoOp ==
  ~baseCanCancel =>
    /\ cancelWrites = {}
    /\ cancelLog = {}
    /\ mu \notin {CancelThread(c) : c \in Cancels}
    /\ \A c \in Cancels : cpc[c] \in {"off", "idle", "done"}

\* CancelRequest(R) returned with R's entry still registered
C10_Witness ==
  \E c \in Cancels :
    ~baseCanCancel /\ cpc[c] = "done" /\ MapGet(modReq, creq[c]) # NilReq

\* C11. Concurrent independence: with concurrent RoundTrip calls on
\* distinct originals, whatever the interleaving, Base receives for each
\* exchange that exchange's clone, carrying the marker its visitor set and
\* no other exchange's marker; every entry of the table maps an original to
\* the clone of the exchange on that original; and what a RoundTrip returns
\* after calling Base is the response or the error of its own Base call.
C11_ConcurrentIndependence ==
  /\ \A e \in Exch : baseCalls[e] > 0 =>
       /\ baseGot[e].req = ModReq(e)
       /\ RequestVisitor = "marker" /\ visitOps[e] = 1 =>
            /\ MarkerKey \in DOMAIN baseGot[e].hdr
            /\ baseGot[e].hdr[MarkerKey] = <<Marker(e)>>
            /\ \A f \in Exch \ {e} : \A k \in DOMAIN baseGot[e].hdr :
                 \A i \in DOMAIN baseGot[e].hdr[k] : baseGot[e].hdr[k][i] # Marker(f)
  /\ \A r \in DOMAIN modReq : \E e \in Exch : r = req[e] /\ modReq[r] = ModReq(e)
  /\ \A e \in Exch : Returned(e) /\ baseCalls[e] > 0 =>
       ret[e] = (IF berr[e] = NoErr THEN [res |-> BaseRes(e), err |-> NoErr]
                 ELSE [res |-> NoRes, err |-> berr[e]])

\* every exchange is inside Base at the same time, each with its own marker
\* and its own entry
C11_Witness ==
  \A e \in Exch :
    /\ pc[e] = "base_wait"
    /\ visitOps[e] = 1
    /\ baseGot[e].hdr[MarkerKey] = <<Marker(e)>>
    /\ MapGet(modReq, req[e]) = ModReq(e)

\* C12. Pass-through without a visitor: with RequestVisitor nil, what
\* Base.RoundTrip receives is still a clone: another object than R, with a
\* header collection equal to R's and with R's method, URL and body.
C12_PassThroughClone ==
  \A e \in Exch : RequestVisitor = "nil" /\ baseCalls[e] > 0 =>
    /\ baseGot[e].req # req[e]
    /\ baseGot[e].hdr = origHdr0[OrigOf(e)]
    /\ reqs[baseGot[e].req].Method = reqs[req[e]].Method
    /\ reqs[baseGot[e].req].URL = reqs[req[e]].URL
    /\ reqs[baseGot[e].req].Body = reqs[req[e]].Body

\* Base was called, without a visitor, for a request with every header key
C12_Witness ==
  \E e \in Exch :
    /\ RequestVisitor = "nil"
    /\ baseCalls[e] > 0
    /\ DOMAIN origHdr0[OrigOf(e)] = Keys
    /\ \A k \in Keys : Len(origHdr0[OrigOf(e)][k]) = MaxVals

\* the calls one RoundTrip and its body make, in the order of lines 57, 63,
\* 64 and then 67 or 72
IsPrefix(s, t) == Len(s) <= Len(t) /\ \A i \in 1..Len(s) : s[i] = t[i]
CallOrders ==
  LET tail == {<<"register", "base", "unregister">>,
               <<"register", "base", "cleanup", "unregister">>}
  IN IF RequestVisitor = "nil" THEN tail ELSE {<<"visit">> \o t : t \in tail}

\* what one RoundTrip and its body have done so far is a beginning of: the
\* visitor, once and first; then the registration; then Base, once; then,
\* Base having returned, the unregistration, at once on an error or from
\* the body's callback.  After a visitor error nothing follows.
CallOrder(e) ==
  /\ \E t \in CallOrders : IsPrefix(trace[e], t)
  /\ verr[e] # NoErr => trace[e] = <<"visit">>
  /\ baseCalls[e] <= 1
  /\ (\E i \in DOMAIN trace[e] : trace[e][i] = "unregister") =>
       berr[e] # NoErr \/ ret[e].res = BaseRes(e)

\* C13, as stated. Per-exchange ordering: within one RoundTrip(R) the
\* visitor is invoked once and first, then the mapping is registered, then
\* Base is invoked once, and only after Base has returned is the mapping
\* unregistered; and at the moment Base is invoked the table holds
\* R -> clone.
C13_TableHoldsAtBaseCall ==
  \A e \in Exch :
    /\ CallOrder(e)
    /\ baseCalls[e] > 0 => baseGot[e].entry = ModReq(e)

\* C13, amended. The order of the calls is as stated; at the moment Base is
\* invoked the mapping R -> clone has been registered, and the table holds
\* it unless a CancelRequest(R) has removed it between lines 63 and 64.
C13_CallOrder ==
  \A e \in Exch :
    /\ CallOrder(e)
    /\ baseCalls[e] > 0 =>
         \/ baseGot[e].entry = ModReq(e)
         \/ /\ baseGot[e].entry = NilReq
            /\ \E c \in Cancels : creq[c] = req[e] /\ cfound[c] = ModReq(e)

\* an exchange went through the visitor, the registration, Base and the
\* body's callback, and Base was given a request no longer in the table
C13_Witness ==
  \E e \in Exch :
    /\ trace[e] = <<"visit", "register", "base", "cleanup", "unregister">>
    /\ baseGot[e].entry = NilReq

\* exchange e is over: RoundTrip returned an error, or a Read of the body
\* has returned io.EOF or a Close of the body has returned
Concluded(e) ==
  \/ pc[e] = "done"
  \/ pc[e] \in {"io_ret", "body"} /\ (eofReads[e] > 0 \/ rcCloses[e] > 0)
NotStarted(e) == pc[e] \in {"idle", "off"}

\* C14. No leaked entries: the mapping an exchange registered is gone once
\* the exchange is over (Base failed, a Read returned io.EOF, or Close
\* returned), so that the table is empty whenever every started exchange is
\* over; and when every call runs to its end and every returned body is
\* closed in the end, the table becomes empty and stays empty.
C14_NoLeak ==
  /\ [](\A e \in Exch : Concluded(e) => req[e] \notin DOMAIN modReq)
  /\ []((\A e \in Exch : Concluded(e) \/ NotStarted(e)) => modReq = <<>>)
  /\ <>[](modReq = <<>>)

\* every exchange registered its mapping and is over, one by Base's error,
\* the others by their body
C14_Witness ==
  /\ \A e \in Exch : Concluded(e) /\ (\E i \in DOMAIN trace[e] : trace[e][i] = "register")
  /\ \E e \in Exch : berr[e] # NoErr
  /\ \E e \in Exch : rcCloses[e] > 0 /\ eofReads[e] = 0
  /\ modReq = <<>>

\* the result in hand is one of rc.Close, or one of rc.Read
IsCloseResult(r) == r.n = 0 /\ r.err[1] \in {"nil", "close error"}
IsReadResult(r) == ~IsCloseResult(r)

\* C15. Close result: every Close of the wrapped body calls rc.Close, also
\* after io.EOF was read and after an earlier Close, and calls it before it
\* triggers the callback; when Close returns, the callback has run (then or
\* before, once), the mapping is unregistered, and what Close returns is
\* what rc.Close returned, its error included.
C15_CloseResult ==
  \A e \in Exch :
    /\ rcCloses[e] = closeCalls[e]
    /\ pc[e] = "io_ret" /\ IsCloseResult(rcRes[e]) =>
         /\ ioRet[e] = rcRes[e]
         /\ fnCalls[e] = 1
         /\ ~fn[e]
         /\ req[e] \notin DOMAIN modReq

\* a Close after io.EOF was read: rc.Close was called and failed, and Close
\* returned its error
C15_Witness ==
  \E e \in Exch :
    /\ pc[e] = "io_ret"
    /\ ioRet[e].err = CloseErr(e)
    /\ eofReads[e] > 0
    /\ rcCloses[e] = 1
    /\ fnCalls[e] = 1

\* C16. Read cleanup iff io.EOF: Read returns the count and the error of
\* rc.Read; when that error is io.EOF the callback has run, and the mapping
\* is unregistered, before Read returns; as long as no Read has met io.EOF
\* and Close was not called, whatever Reads returned bytes or other errors,
\* the callback has not run and is still set.
C16_ReadCleanupIffEOF ==
  \A e \in Exch :
    /\ pc[e] = "io_ret" /\ IsReadResult(rcRes[e]) => ioRet[e] = rcRes[e]
    /\ pc[e] = "io_ret" /\ rcRes[e].err = EOF =>
         fnCalls[e] = 1 /\ ~fn[e] /\ req[e] \notin DOMAIN modReq
    /\ ret[e].res = BaseRes(e) /\ eofReads[e] = 0 /\ closeCalls[e] = 0 =>
         fnCalls[e] = 0 /\ fn[e] /\ pc[e] \in {"body", "io_ret"}

\* one Read returned an error that is not io.EOF and left the callback and
\* the mapping alone; another Read returned io.EOF after the callback ran
C16_Witness ==
  \E e, f \in Exch :
    /\ pc[e] = "io_ret" /\ ioRet[e] = [n |-> 0, err |-> ReadErr(e)]
    /\ fnCalls[e] = 0 /\ MapGet(modReq, req[e]) = ModReq(e)
    /\ pc[f] = "io_ret" /\ ioRet[f] = [n |-> 0, err |-> EOF]
    /\ fnCalls[f] = 1 /\ rcCloses[f] = 0

\* the threads between a t.mu.Lock() and the t.mu.Unlock() after it: in
\* setModReq (lines 94-101) and in CancelRequest (lines 84-87)
InTable ==
  {RTThread(e) : e \in {x \in Exch : pc[x] \in {"sm_write", "sm_unlock"}}}
  \cup {CancelThread(c) : c \in {x \in Cancels : cpc[x] \in {"c_get", "c_del", "c_unlock"}}}

\* C17. Table accesses are mutually exclusive: a thread that reads or
\* writes the table (the registration, the unregistration after Base's
\* error, the one by the body's callback, the lookup and the removal of
\* CancelRequest) holds the mutex; no two threads are inside a table
\* operation at once; and what CancelRequest removes is the entry it has
\* just looked up, no other table operation coming between the two.
C17_TableMutualExclusion ==
  /\ \A t \in InTable : mu = t
  /\ Cardinality(InTable) <= 1
  /\ \A c \in Cancels : cpc[c] = "c_del" => MapGet(modReq, creq[c]) = cmodReq[c]

\* an exchange is writing the table while another exchange's callback and a
\* CancelRequest wait for the mutex
C17_Witness ==
  \E e, f \in Exch : \E c \in Cancels :
    /\ pc[e] = "sm_write"
    /\ pc[f] = "fn_call"
    /\ cpc[c] = "c_lock"

\* C18. The mutex is not held across external calls: a thread holds it only
\* between the Lock and the Unlock of one table operation, so never while
\* the visitor runs, while Base.RoundTrip runs, or when Base's CancelRequest
\* is called; and the holder can always go on by itself, so an exchange
\* stuck in the visitor or in Base keeps no other thread from its table
\* operation.
C18_NoLockAcrossExternalCalls ==
  /\ \A e \in Exch :
       /\ mu = RTThread(e) => pc[e] \in {"sm_write", "sm_unlock"}
       /\ mu = RTThread(e) => ENABLED (SetModReqWrite(e) \/ SetModReqUnlock(e))
       /\ pc[e] \in {"visit", "base_call", "base_wait"} => mu # RTThread(e)
  /\ \A c \in Cancels :
       /\ mu = CancelThread(c) => cpc[c] \in {"c_get", "c_del", "c_unlock"}
       /\ mu = CancelThread(c) =>
            ENABLED (CancelLookup(c) \/ CancelDelete(c) \/ CancelUnlock(c))
       /\ cpc[c] = "c_fwd" => mu # CancelThread(c)

\* while one exchange is inside Base, another finishes a table operation
\* and a CancelRequest is about to call Base's CancelRequest
C18_Witness ==
  \E e, f \in Exch : \E c \in Cancels :
    /\ pc[e] = "base_wait"
    /\ pc[f] = "sm_unlock"
    /\ cpc[c] = "c_fwd"

\* exchange e has registered its mapping and is not over: Base has not
\* failed, the body has neither met io.EOF nor been closed, and no
\* CancelRequest was called on its original
Registered(e) == \E i \in DOMAIN trace[e] : trace[e][i] = "register"
Live(e) ==
  /\ Registered(e)
  /\ berr[e] = NoErr
  /\ eofReads[e] = 0 /\ closeCalls[e] = 0
  /\ \A c \in Cancels : creq[c] # req[e]

\* C19, as stated. Live exchanges stay tracked: in every reachable state
\* each exchange that has registered and is not over has a table entry
\* that maps its original to its own clone, also when the caller dispatches
\* the same original again while an earlier exchange on it is not over.
C19_LiveTracked ==
  \A e \in Exch : Live(e) => MapGet(modReq, req[e]) = ModReq(e)

\* C19, amended. The same for every exchange whose original was not
\* dispatched a second time while an exchange on it was in flight: all
\* originals distinct, or an original dispatched again after the earlier
\* exchange on it was over.
C19_LiveTrackedUnlessOverlapped ==
  \A e \in Exch : Live(e) /\ ~overlapped[e] => MapGet(modReq, req[e]) = ModReq(e)

\* an original is dispatched again after the first exchange on it was over,
\* and the second exchange is tracked
C19_Witness ==
  \E e, f \in Exch :
    /\ e # f /\ req[e] = req[f]
    /\ Registered(e) /\ Concluded(e)
    /\ Live(f) /\ ~overlapped[f]
    /\ MapGet(modReq, req[f]) = ModReq(f)

\* the body's callback of exchange e has run and returned
CleanupDone(e) == fnCalls[e] > 0 /\ pc[e] \in {"fn_clear", "io_ret", "body"}
\* a CancelRequest found exchange e's entry and has deleted it
RemovedByCancel(e) ==
  \E c \in Cancels : /\ creq[c] = req[e]
                     /\ cfound[c] = ModReq(e)
                     /\ cpc[c] \in {"c_unlock", "c_fwd", "done"}
\* the calls of Base's CancelRequest that were given exchange e's clone
ForwardsOf(e) == {l \in cancelLog : l.arg = ModReq(e)}

\* C20. Cancel against cleanup: for an exchange on R with clone W and a
\* Base that can cancel, however CancelRequest(R) calls and the body's
\* callback interleave, W is given to Base's CancelRequest at most once,
\* and only by a CancelRequest(R) whose lookup found R -> W; and once the
\* callback has returned, or a CancelRequest that found R -> W has done its
\* removal, the table has no entry for R.
C20_CancelCleanupRace ==
  \A e \in Exch :
    /\ Cardinality(ForwardsOf(e)) <= 1
    /\ \A l \in ForwardsOf(e) : l.orig = req[e] /\ l.found = ModReq(e)
    /\ (CleanupDone(e) \/ RemovedByCancel(e)) => req[e] \notin DOMAIN modReq

\* the callback waits for the mutex that one CancelRequest(R), which found
\* R -> W, holds, while another CancelRequest(R) waits as well
C20_Witness ==
  \E e \in Exch : \E c, d \in Cancels :
    /\ pc[e] = "fn_call"
    /\ creq[c] = req[e] /\ cpc[c] = "c_unlock" /\ cfound[c] = ModReq(e)
    /\ creq[d] = req[e] /\ cpc[d] = "c_lock"

====
